---- MODULE Spec2Model ----
(***************************************************************************)
(* Model of the fixed-point Decimal engine of decimal.go: a Decimal is a   *)
(* pair (value *uint256.Int, mantissa uint8).  Decimals and uint256.Int    *)
(* objects live in a heap, so that copies, aliases and fresh allocations   *)
(* are distinguishable.  256-bit magnitudes are kept as little-endian      *)
(* sequences of 8-bit limbs and every uint256 operation is reduced modulo  *)
(* 2^256, as the library does.                                             *)
(***************************************************************************)
EXTENDS Integers, Sequences, FiniteSets, TLC

(***************************************************************************)
(* Natural numbers of any size: little-endian sequences of limbs, without  *)
(* high zero limbs (zero is the empty sequence).  The recursions halve     *)
(* their range, so their depth is logarithmic in the number of limbs.      *)
(***************************************************************************)
LimbBase == 256

U256Limbs == 32

Limb(a, i) == IF i <= Len(a) THEN a[i] ELSE 0

Max(x, y) == IF x >= y THEN x ELSE y

Min(x, y) == IF x <= y THEN x ELSE y

RECURSIVE NatTop(_, _, _)
\* the highest index in lo..hi of a non-zero limb of a, or 0
NatTop(a, lo, hi) ==
    IF lo > hi THEN 0
    ELSE IF lo = hi THEN (IF a[lo] = 0 THEN 0 ELSE lo)
    ELSE LET mid == (lo + hi) \div 2
             h   == NatTop(a, mid + 1, hi)
         IN  IF h # 0 THEN h ELSE NatTop(a, lo, mid)

NatNorm(a) == SubSeq(a, 1, NatTop(a, 1, Len(a)))

RECURSIVE NatCarry(_, _, _, _)
\* carry propagation through the wide digits d[lo..hi], carry cin coming in
NatCarry(d, lo, hi, cin) ==
    IF lo = hi
    THEN LET t == d[lo] + cin
         IN  [limbs |-> <<t % LimbBase>>, cout |-> t \div LimbBase]
    ELSE LET mid == (lo + hi) \div 2
             L   == NatCarry(d, lo, mid, cin)
             H   == NatCarry(d, mid + 1, hi, L.cout)
         IN  [limbs |-> L.limbs \o H.limbs, cout |-> H.cout]

\* the number with wide digits d (the last carry out is zero)
NatOfDigits(d) ==
    IF Len(d) = 0 THEN <<>> ELSE NatNorm(NatCarry(d, 1, Len(d), 0).limbs)

NatFromInt(n) == NatOfDigits(<<n, 0, 0, 0>>)

RECURSIVE NatCmpR(_, _, _, _)
NatCmpR(a, b, lo, hi) ==
    IF lo > hi THEN 0
    ELSE IF lo = hi
    THEN (IF a[lo] < b[lo] THEN -1 ELSE IF a[lo] > b[lo] THEN 1 ELSE 0)
    ELSE LET mid == (lo + hi) \div 2
             h   == NatCmpR(a, b, mid + 1, hi)
         IN  IF h # 0 THEN h ELSE NatCmpR(a, b, lo, mid)

\* -1, 0 or 1 as a < b, a = b, a > b
NatCmp(a, b) ==
    IF Len(a) < Len(b) THEN -1
    ELSE IF Len(a) > Len(b) THEN 1
    ELSE NatCmpR(a, b, 1, Len(a))

NatLe(a, b) == NatCmp(a, b) <= 0

NatLt(a, b) == NatCmp(a, b) < 0

NatAdd(a, b) ==
    NatOfDigits([i \in 1..(Max(Len(a), Len(b)) + 1) |-> Limb(a, i) + Limb(b, i)])

\* a - b, for a >= b
NatSub(a, b) == NatOfDigits([i \in 1..Len(a) |-> a[i] - Limb(b, i)])

\* a * k for a small factor k (0 <= k < 2^16)
NatMulSmall(a, k) == NatOfDigits([i \in 1..(Len(a) + 2) |-> Limb(a, i) * k])

RECURSIVE NatColumn(_, _, _, _, _)
\* sum of a[i] * b[k + 1 - i] for i in lo..hi
NatColumn(a, b, k, lo, hi) ==
    IF lo > hi THEN 0
    ELSE IF lo = hi THEN a[lo] * b[k + 1 - lo]
    ELSE LET mid == (lo + hi) \div 2
         IN  NatColumn(a, b, k, lo, mid) + NatColumn(a, b, k, mid + 1, hi)

NatMul(a, b) ==
    NatOfDigits([k \in 1..(Len(a) + Len(b)) |->
        NatColumn(a, b, k, Max(1, k + 1 - Len(b)), Min(Len(a), k))])

\* The limbs of r at positions n+1, n, n-1, as an integer.
NatTop3(r, n) ==
    IF n = 1 THEN Limb(r, 2) * LimbBase + Limb(r, 1)
    ELSE (Limb(r, n + 1) * LimbBase + Limb(r, n)) * LimbBase + Limb(r, n - 1)

\* The two highest limbs of b (of n limbs), as an integer.
NatTop2(b, n) == IF n = 1 THEN b[1] ELSE b[n] * LimbBase + b[n - 1]

RECURSIVE NatQSearch(_, _, _, _)
\* the largest k in lo..hi with k * b <= r (lo * b <= r is given)
NatQSearch(r, b, lo, hi) ==
    IF lo >= hi THEN lo
    ELSE LET mid == (lo + hi + 1) \div 2
         IN  IF NatLe(NatMulSmall(b, mid), r)
             THEN NatQSearch(r, b, mid, hi)
             ELSE NatQSearch(r, b, lo, mid - 1)

\* One digit of the long division: floor(r / b), for b <= r < b * LimbBase.
\* The leading limbs bracket the digit; the search settles it.
NatQDigit(r, b) ==
    LET n  == Len(b)
        rt == NatTop3(r, n)
        bt == NatTop2(b, n)
        lo == IF n > 2 THEN rt \div (bt + 1) ELSE rt \div bt
        hi == IF n > 2 THEN (rt + 1) \div bt ELSE rt \div bt
    IN  NatQSearch(r, b, Max(lo, 1), Min(hi, LimbBase - 1))

RECURSIVE NatDivR(_, _, _, _, _)
\* long division of the limbs a[hi], ..., a[lo] by b, remainder r coming in;
\* the quotient's digits come highest first
NatDivR(a, b, lo, hi, r) ==
    IF lo = hi
    THEN LET r1 == NatNorm(<<a[lo]>> \o r)
         IN  IF NatLt(r1, b) THEN [quo |-> <<0>>, rem |-> r1]
             ELSE LET d == NatQDigit(r1, b)
                  IN  [quo |-> <<d>>, rem |-> NatSub(r1, NatMulSmall(b, d))]
    ELSE LET mid == (lo + hi) \div 2
             H   == NatDivR(a, b, mid + 1, hi, r)
             L   == NatDivR(a, b, lo, mid, H.rem)
         IN  [quo |-> H.quo \o L.quo, rem |-> L.rem]

Reverse(s) == [i \in 1..Len(s) |-> s[Len(s) + 1 - i]]

\* floor(a / b) and a mod b, for b > 0
NatDivMod(a, b) ==
    IF NatLt(a, b) THEN [quo |-> <<>>, rem |-> a]
    ELSE LET r == NatDivR(a, b, 1, Len(a), <<>>)
         IN  [quo |-> NatNorm(Reverse(r.quo)), rem |-> r.rem]

RECURSIVE NatPow10(_)
NatPow10(n) ==
    IF n = 0 THEN <<1>>
    ELSE LET h  == NatPow10(n \div 2)
             sq == NatMul(h, h)
         IN  IF n % 2 = 1 THEN NatMulSmall(sq, 10) ELSE sq

(***************************************************************************)
(* uint256.Int: 256-bit unsigned integers, every result reduced mod 2^256. *)
(***************************************************************************)
U256Max == [i \in 1..U256Limbs |-> LimbBase - 1]

Pow2To256 == [i \in 1..(U256Limbs + 1) |-> IF i = U256Limbs + 1 THEN 1 ELSE 0]

\* n mod 2^256
U256Mod(n) == NatNorm(SubSeq(n, 1, Min(Len(n), U256Limbs)))

U256Add(x, y) == U256Mod(NatAdd(x, y))

U256Sub(x, y) ==
    IF NatLe(y, x) THEN NatSub(x, y) ELSE NatSub(NatAdd(x, Pow2To256), y)

U256Mul(x, y) == U256Mod(NatMul(x, y))

\* uint256.Int.Div: the quotient, and zero when the divisor is zero
U256Div(x, y) == IF y = <<>> THEN <<>> ELSE NatDivMod(x, y).quo

U256Neg(x) == U256Sub(<<>>, x)

U256Eq(x, y) == NatCmp(x, y) = 0

U256Gt(x, y) == NatCmp(x, y) > 0

U256Lt(x, y) == NatCmp(x, y) < 0

\* uint256.Int.SetFromBig: the low 256 bits of |b|, negated when b < 0;
\* overflow reports that |b| has more than 256 bits.  A big.Int is a
\* record [neg, abs].
U256SetFromBig(b) ==
    [val      |-> IF b.neg THEN U256Neg(U256Mod(b.abs)) ELSE U256Mod(b.abs),
     overflow |-> Len(b.abs) > U256Limbs]

\* big.NewInt(int64(value)) for a uint64 value: the conversion to int64
\* reinterprets the 64 bits as two's complement.
Pow2To63 == [i \in 1..8 |-> IF i = 8 THEN 128 ELSE 0]

Pow2To64 == [i \in 1..9 |-> IF i = 9 THEN 1 ELSE 0]

BigFromInt64OfUint64(value) ==
    IF NatLt(value, Pow2To63)
    THEN [neg |-> FALSE, abs |-> value]
    ELSE [neg |-> TRUE, abs |-> NatSub(Pow2To64, value)]

(***************************************************************************)
(* The power-of-ten provider.  Its code is not part of decimal.go; on its  *)
(* domain 0..255 it returns 10^n mod 2^256.                                *)
(***************************************************************************)
ExpDomain == 0..255

\* The provider's values 10^n mod 2^256 for n = 0, 1, ..., 255, as limbs.
ExpScaleTable ==
    <<
      <<1>>,
      <<10>>,
      <<100>>,
      <<232, 3>>,
      <<16, 39>>,
      <<160, 134, 1>>,
      <<64, 66, 15>>,
      <<128, 150, 152>>,
      <<0, 225, 245, 5>>,
      <<0, 202, 154, 59>>,
      <<0, 228, 11, 84, 2>>,
      <<0, 232, 118, 72, 23>>,
      <<0, 16, 165, 212, 232>>,
      <<0, 160, 114, 78, 24, 9>>,
      <<0, 64, 122, 16, 243, 90>>,
      <<0, 128, 198, 164, 126, 141, 3>>,
      <<0, 0, 193, 111, 242, 134, 35>>,
      <<0, 0, 138, 93, 120, 69, 99, 1>>,
      <<0, 0, 100, 167, 179, 182, 224, 13>>,
      <<0, 0, 232, 137, 4, 35, 199, 138>>,
      <<0, 0, 16, 99, 45, 94, 199, 107, 5>>,
      <<0, 0, 160, 222, 197, 173, 201, 53, 54>>,
      <<0, 0, 64, 178, 186, 201, 224, 25, 30, 2>>,
      <<0, 0, 128, 246, 74, 225, 199, 2, 45, 21>>,
      <<0, 0, 0, 161, 237, 204, 206, 27, 194, 211>>,
      <<0, 0, 0, 74, 72, 1, 20, 22, 149, 69, 8>>,
      <<0, 0, 0, 228, 210, 12, 200, 220, 210, 183, 82>>,
      <<0, 0, 0, 232, 60, 128, 208, 159, 60, 46, 59, 3>>,
      <<0, 0, 0, 16, 97, 2, 37, 62, 94, 206, 79, 32>>,
      <<0, 0, 0, 160, 202, 23, 114, 109, 174, 15, 30, 67, 1>>,
      <<0, 0, 0, 64, 234, 237, 116, 70, 208, 156, 44, 159, 12>>,
      <<0, 0, 0, 128, 38, 75, 145, 192, 34, 32, 190, 55, 126>>,
      <<0, 0, 0, 0, 129, 239, 172, 133, 91, 65, 109, 45, 238, 4>>,
      <<0, 0, 0, 0, 10, 91, 193, 56, 147, 141, 68, 198, 77, 49>>,
      <<0, 0, 0, 0, 100, 142, 141, 55, 192, 135, 173, 190, 9, 237, 1>>,
      <<0, 0, 0, 0, 232, 143, 135, 43, 130, 77, 199, 114, 97, 66, 19>>,
      <<0, 0, 0, 0, 16, 159, 75, 179, 21, 7, 201, 123, 206, 151, 192>>,
      <<0, 0, 0, 0, 160, 54, 244, 0, 217, 70, 218, 213, 16, 238, 133, 7>>,
      <<0, 0, 0, 0, 64, 34, 138, 9, 122, 196, 134, 90, 168, 76, 59, 75>>,
      <<0, 0, 0, 0, 128, 86, 101, 95, 196, 172, 67, 137, 147, 254, 80, 240, 2>>,
      <<0, 0, 0, 0, 0, 97, 245, 185, 171, 191, 164, 92, 195, 241, 41, 99, 29>>,
      <<0, 0, 0, 0, 0, 202, 149, 67, 181, 124, 111, 158, 161, 113, 163, 223, 37, 1>>,
      <<0, 0, 0, 0, 0, 228, 217, 163, 20, 223, 90, 48, 80, 112, 98, 188, 122, 11>>,
      <<0, 0, 0, 0, 0, 232, 130, 102, 206, 182, 140, 227, 33, 99, 216, 91, 203, 114>>,
      <<0, 0, 0, 0, 0, 16, 29, 1, 16, 36, 127, 227, 82, 223, 115, 150, 241, 123, 4>>,
      <<0, 0, 0, 0, 0, 160, 34, 11, 160, 104, 247, 226, 60, 185, 134, 224, 111, 215, 44>>,
      <<0, 0, 0, 0, 0, 64, 90, 111, 64, 22, 170, 221, 96, 60, 67, 197, 94, 106, 192, 1>>,
      <<0, 0, 0, 0, 0, 128, 134, 89, 132, 222, 164, 168, 200, 91, 160, 180, 179, 39, 132, 17>>,
      <<0, 0, 0, 0, 0, 0, 65, 127, 43, 177, 112, 150, 214, 149, 67, 14, 5, 141, 41, 175>>,
      <<0, 0, 0, 0, 0, 0, 138, 248, 178, 235, 102, 224, 97, 218, 163, 142, 50, 130, 159, 215, 6>>,
      <<0, 0, 0, 0, 0, 0, 100, 181, 253, 52, 5, 196, 210, 135, 102, 146, 249, 21, 59, 108, 68>>,
      <<0, 0, 0, 0, 0, 0, 232, 21, 233, 17, 52, 168, 59, 78, 1, 184, 191, 219, 78, 58, 172, 2>>,
      <<0, 0, 0, 0, 0, 0, 16, 219, 26, 179, 8, 146, 84, 14, 13, 48, 125, 149, 20, 71, 186, 26>>,
      <<0, 0, 0, 0, 0, 0, 160, 142, 12, 255, 86, 180, 77, 143, 130, 224, 227, 214, 205, 198, 70, 11, 1>>,
      <<0, 0, 0, 0, 0, 0, 64, 146, 125, 246, 101, 11, 9, 153, 25, 197, 230, 100, 10, 196, 195, 112, 10>>,
      <<0, 0, 0, 0, 0, 0, 128, 182, 231, 160, 251, 113, 90, 250, 255, 178, 3, 241, 103, 168, 165, 103, 104>>,
      <<0, 0, 0, 0, 0, 0, 0, 33, 13, 73, 212, 115, 136, 199, 255, 253, 36, 106, 15, 148, 120, 12, 20, 4>>,
      <<0, 0, 0, 0, 0, 0, 0, 74, 131, 218, 74, 134, 84, 203, 253, 235, 113, 37, 154, 200, 181, 124, 200, 40>>,
      <<0, 0, 0, 0, 0, 0, 0, 228, 32, 137, 236, 62, 77, 241, 233, 55, 115, 118, 5, 214, 25, 223, 212, 151, 1>>,
      <<0, 0, 0, 0, 0, 0, 0, 232, 72, 91, 61, 117, 4, 109, 35, 47, 128, 160, 54, 92, 2, 183, 80, 238, 15>>,
      <<0, 0, 0, 0, 0, 0, 0, 16, 217, 144, 101, 148, 44, 66, 98, 215, 1, 69, 34, 154, 23, 38, 39, 79, 159>>,
      <<0, 0, 0, 0, 0, 0, 0, 160, 122, 168, 247, 203, 189, 149, 214, 105, 18, 178, 86, 5, 236, 124, 135, 23, 57, 6>>,
      <<0, 0, 0, 0, 0, 0, 0, 64, 202, 148, 172, 247, 105, 217, 97, 34, 184, 244, 98, 53, 56, 225, 74, 235, 58, 62>>,
      <<0, 0, 0, 0, 0, 0, 0, 128, 230, 207, 189, 172, 35, 126, 210, 87, 49, 143, 221, 21, 50, 204, 236, 48, 77, 110, 2>>,
      <<0, 0, 0, 0, 0, 0, 0, 0, 1, 31, 106, 191, 100, 237, 56, 110, 237, 151, 167, 218, 244, 249, 63, 233, 3, 79, 24>>,
      <<0, 0, 0, 0, 0, 0, 0, 0, 10, 54, 37, 122, 239, 69, 57, 78, 70, 239, 139, 138, 144, 195, 127, 28, 39, 22, 243>>,
      <<0, 0, 0, 0, 0, 0, 0, 0, 100, 28, 116, 197, 90, 187, 60, 14, 191, 88, 119, 105, 165, 163, 253, 28, 135, 221, 126, 9>>,
      <<0, 0, 0, 0, 0, 0, 0, 0, 232, 27, 137, 182, 139, 81, 95, 142, 118, 119, 169, 30, 118, 100, 232, 33, 71, 167, 244, 94>>,
      <<0, 0, 0, 0, 0, 0, 0, 0, 16, 23, 91, 33, 117, 47, 185, 143, 161, 170, 158, 50, 157, 236, 19, 83, 199, 136, 142, 181, 3>>,
      <<0, 0, 0, 0, 0, 0, 0, 0, 160, 230, 142, 77, 147, 218, 59, 157, 79, 170, 50, 250, 35, 62, 199, 62, 201, 87, 145, 23, 37>>,
      <<0, 0, 0, 0, 0, 0, 0, 0, 64, 2, 149, 7, 193, 137, 86, 36, 28, 167, 250, 197, 103, 109, 200, 115, 220, 109, 173, 235, 114, 1>>,
      <<0, 0, 0, 0, 0, 0, 0, 0, 128, 22, 210, 75, 138, 97, 97, 107, 25, 135, 202, 187, 13, 70, 212, 133, 156, 74, 198, 52, 125, 14>>,
      <<0, 0, 0, 0, 0, 0, 0, 0, 0, 225, 52, 246, 102, 207, 205, 49, 254, 70, 233, 85, 137, 188, 74, 58, 29, 234, 190, 15, 228, 144>>,
      <<0, 0, 0, 0, 0, 0, 0, 0, 0, 202, 16, 158, 5, 26, 10, 242, 237, 197, 28, 91, 93, 93, 235, 70, 36, 37, 117, 157, 232, 168, 5>>,
      <<0, 0, 0, 0, 0, 0, 0, 0, 0, 228, 167, 44, 56, 4, 101, 116, 75, 187, 31, 143, 165, 165, 49, 197, 106, 115, 147, 38, 22, 153, 56>>,
      <<0, 0, 0, 0, 0, 0, 0, 0, 0, 232, 142, 190, 49, 42, 242, 139, 242, 80, 61, 151, 119, 120, 240, 179, 43, 130, 194, 129, 221, 250, 53, 2>>,
      <<0, 0, 0, 0, 0, 0, 0, 0, 0, 16, 149, 113, 241, 165, 117, 119, 121, 41, 101, 232, 171, 180, 100, 7, 181, 21, 153, 17, 167, 204, 27, 22>>,
      <<0, 0, 0, 0, 0, 0, 0, 0, 0, 160, 210, 111, 110, 123, 152, 170, 190, 158, 243, 19, 183, 14, 239, 73, 18, 217, 250, 175, 134, 254, 21, 221>>,
      <<0, 0, 0, 0, 0, 0, 0, 0, 0, 64, 58, 94, 80, 210, 244, 169, 114, 51, 132, 199, 38, 147, 86, 227, 182, 122, 204, 223, 66, 241, 219, 162>>,
      <<0, 0, 0, 0, 0, 0, 0, 0, 0, 128, 70, 174, 35, 55, 144, 163, 122, 2, 42, 203, 131, 191, 97, 225, 36, 203, 252, 189, 156, 108, 151, 92>>,
      <<0, 0, 0, 0, 0, 0, 0, 0, 0, 0, 193, 206, 100, 39, 162, 99, 202, 24, 164, 239, 37, 123, 209, 205, 112, 239, 223, 107, 31, 62, 234, 157>>,
      <<0, 0, 0, 0, 0, 0, 0, 0, 0, 0, 138, 19, 240, 137, 85, 228, 231, 247, 104, 92, 123, 207, 46, 10, 104, 90, 191, 54, 58, 109, 38, 43>>,
      <<0, 0, 0, 0, 0, 0, 0, 0, 0, 0, 100, 195, 96, 99, 87, 235, 14, 175, 25, 156, 209, 26, 212, 101, 16, 136, 121, 35, 70, 68, 128, 175>>,
      <<0, 0, 0, 0, 0, 0, 0, 0, 0, 0, 232, 161, 199, 225, 105, 49, 149, 214, 0, 25, 48, 12, 73, 250, 163, 80, 191, 98, 189, 170, 2, 219>>,
      <<0, 0, 0, 0, 0, 0, 0, 0, 0, 0, 16, 83, 204, 209, 34, 238, 211, 97, 8, 250, 224, 121, 218, 198, 103, 38, 121, 219, 101, 171, 26, 142>>,
      <<0, 0, 0, 0, 0, 0, 0, 0, 0, 0, 160, 62, 251, 49, 92, 77, 71, 210, 83, 196, 201, 194, 136, 196, 13, 128, 187, 146, 250, 177, 10, 141>>,
      <<0, 0, 0, 0, 0, 0, 0, 0, 0, 0, 64, 114, 208, 243, 153, 5, 201, 54, 70, 171, 225, 155, 87, 173, 137, 0, 83, 187, 201, 243, 106, 130>>,
      <<0, 0, 0, 0, 0, 0, 0, 0, 0, 0, 128, 118, 36, 134, 3, 56, 218, 35, 190, 176, 208, 22, 108, 197, 96, 5, 62, 81, 225, 133, 45, 24>>,
      <<0, 0, 0, 0, 0, 0, 0, 0, 0, 0, 0, 161, 108, 61, 35, 48, 134, 102, 109, 231, 38, 228, 56, 182, 199, 53, 108, 44, 205, 58, 199, 241>>,
      <<0, 0, 0, 0, 0, 0, 0, 0, 0, 0, 0, 74, 62, 102, 96, 225, 61, 1, 70, 10, 133, 233, 56, 30, 205, 25, 58, 188, 3, 76, 200, 113>>,
      <<0, 0, 0, 0, 0, 0, 0, 0, 0, 0, 0, 228, 110, 254, 195, 205, 106, 12, 188, 102, 50, 31, 57, 46, 3, 2, 69, 90, 37, 248, 210, 113>>,
      <<0, 0, 0, 0, 0, 0, 0, 0, 0, 0, 0, 232, 84, 240, 167, 9, 44, 124, 88, 3, 248, 55, 59, 206, 31, 20, 178, 134, 117, 177, 61, 114>>,
      <<0, 0, 0, 0, 0, 0, 0, 0, 0, 0, 0, 16, 81, 99, 143, 96, 184, 217, 116, 33, 176, 47, 80, 14, 62, 201, 244, 66, 151, 238, 104, 118>>,
      <<0, 0, 0, 0, 0, 0, 0, 0, 0, 0, 0, 160, 42, 225, 153, 197, 51, 129, 144, 78, 225, 220, 33, 143, 108, 220, 143, 157, 232, 81, 25, 160>>,
      <<0, 0, 0, 0, 0, 0, 0, 0, 0, 0, 0, 64, 170, 203, 2, 184, 5, 12, 165, 17, 205, 160, 82, 151, 61, 156, 158, 39, 22, 51, 253, 64>>,
      <<0, 0, 0, 0, 0, 0, 0, 0, 0, 0, 0, 128, 166, 244, 27, 48, 57, 120, 114, 176, 2, 72, 58, 233, 103, 26, 50, 140, 221, 254, 227, 137>>,
      <<0, 0, 0, 0, 0, 0, 0, 0, 0, 0, 0, 0, 129, 142, 23, 225, 59, 178, 120, 228, 26, 208, 70, 28, 15, 8, 245, 121, 167, 244, 231, 98>>,
      <<0, 0, 0, 0, 0, 0, 0, 0, 0, 0, 0, 0, 10, 145, 235, 202, 86, 246, 182, 236, 12, 33, 196, 26, 151, 80, 146, 195, 138, 142, 15, 221>>,
      <<0, 0, 0, 0, 0, 0, 0, 0, 0, 0, 0, 0, 100, 170, 51, 237, 99, 159, 37, 63, 129, 74, 169, 11, 231, 37, 183, 163, 107, 145, 155, 162>>,
      <<0, 0, 0, 0, 0, 0, 0, 0, 0, 0, 0, 0, 232, 167, 4, 68, 231, 57, 120, 119, 12, 233, 156, 116, 6, 123, 39, 101, 52, 174, 19, 90>>,
      <<0, 0, 0, 0, 0, 0, 0, 0, 0, 0, 0, 0, 16, 143, 46, 168, 8, 67, 178, 170, 124, 26, 33, 142, 64, 206, 138, 243, 11, 206, 196, 132>>,
      <<0, 0, 0, 0, 0, 0, 0, 0, 0, 0, 0, 0, 160, 150, 209, 145, 86, 158, 246, 170, 222, 8, 75, 141, 133, 14, 108, 131, 119, 12, 176, 47>>,
      <<0, 0, 0, 0, 0, 0, 0, 0, 0, 0, 0, 0, 64, 226, 47, 178, 97, 47, 162, 173, 178, 88, 238, 132, 55, 145, 56, 34, 171, 124, 224, 220>>,
      <<0, 0, 0, 0, 0, 0, 0, 0, 0, 0, 0, 0, 128, 214, 222, 245, 208, 217, 85, 200, 250, 118, 79, 49, 43, 172, 53, 86, 175, 222, 196, 160>>,
      <<0, 0, 0, 0, 0, 0, 0, 0, 0, 0, 0, 0, 0, 97, 180, 154, 41, 130, 90, 211, 203, 165, 26, 237, 175, 185, 24, 94, 217, 178, 176, 71>>,
      <<0, 0, 0, 0, 0, 0, 0, 0, 0, 0, 0, 0, 0, 202, 11, 11, 160, 21, 137, 65, 246, 121, 10, 67, 223, 64, 247, 172, 125, 252, 230, 204>>,
      <<0, 0, 0, 0, 0, 0, 0, 0, 0, 0, 0, 0, 0, 228, 117, 110, 64, 216, 90, 143, 158, 195, 104, 158, 184, 136, 168, 193, 232, 220, 5, 1>>,
      <<0, 0, 0, 0, 0, 0, 0, 0, 0, 0, 0, 0, 0, 232, 154, 80, 132, 114, 140, 153, 49, 164, 23, 48, 54, 87, 149, 144, 23, 161, 58, 10>>,
      <<0, 0, 0, 0, 0, 0, 0, 0, 0, 0, 0, 0, 0, 16, 13, 38, 43, 121, 124, 255, 239, 105, 236, 224, 29, 104, 213, 165, 235, 74, 74, 102>>,
      <<0, 0, 0, 0, 0, 0, 0, 0, 0, 0, 0, 0, 0, 160, 130, 124, 175, 187, 220, 250, 95, 35, 60, 201, 42, 17, 86, 122, 52, 237, 230, 254>>,
      <<0, 0, 0, 0, 0, 0, 0, 0, 0, 0, 0, 0, 0, 64, 26, 221, 218, 84, 159, 204, 191, 97, 89, 220, 171, 171, 92, 199, 12, 68, 5, 245>>,
      <<0, 0, 0, 0, 0, 0, 0, 0, 0, 0, 0, 0, 0, 128, 6, 163, 140, 80, 57, 254, 125, 209, 125, 155, 182, 180, 158, 201, 127, 168, 52, 146>>,
      <<0, 0, 0, 0, 0, 0, 0, 0, 0, 0, 0, 0, 0, 0, 65, 94, 126, 37, 61, 238, 235, 46, 234, 18, 34, 15, 51, 224, 253, 148, 14, 182>>,
      <<0, 0, 0, 0, 0, 0, 0, 0, 0, 0, 0, 0, 0, 0, 138, 174, 239, 118, 99, 78, 55, 213, 37, 189, 84, 151, 254, 193, 234, 209, 145, 28>>,
      <<0, 0, 0, 0, 0, 0, 0, 0, 0, 0, 0, 0, 0, 0, 100, 209, 92, 165, 226, 15, 41, 84, 122, 99, 79, 233, 241, 147, 43, 51, 178, 29>>,
      <<0, 0, 0, 0, 0, 0, 0, 0, 0, 0, 0, 0, 0, 0, 232, 45, 160, 117, 218, 158, 154, 73, 199, 226, 25, 29, 115, 199, 179, 255, 245, 40>>,
      <<0, 0, 0, 0, 0, 0, 0, 0, 0, 0, 0, 0, 0, 0, 16, 203, 65, 152, 136, 52, 10, 224, 200, 219, 2, 35, 127, 202, 5, 253, 155, 153>>,
      <<0, 0, 0, 0, 0, 0, 0, 0, 0, 0, 0, 0, 0, 0, 160, 238, 145, 242, 85, 13, 102, 192, 216, 149, 28, 94, 247, 232, 57, 226, 23>>,
      <<0, 0, 0, 0, 0, 0, 0, 0, 0, 0, 0, 0, 0, 0, 64, 82, 179, 121, 91, 133, 252, 131, 119, 218, 29, 173, 169, 25, 67, 214, 238>>,
      <<0, 0, 0, 0, 0, 0, 0, 0, 0, 0, 0, 0, 0, 0, 128, 54, 1, 193, 146, 53, 221, 39, 171, 136, 42, 195, 160, 0, 159, 94, 84, 9>>,
      <<0, 0, 0, 0, 0, 0, 0, 0, 0, 0, 0, 0, 0, 0, 0, 33, 12, 138, 187, 23, 164, 142, 175, 86, 169, 159, 71, 6, 54, 178, 75, 93>>,
      <<0, 0, 0, 0, 0, 0, 0, 0, 0, 0, 0, 0, 0, 0, 0, 74, 121, 100, 83, 237, 104, 146, 219, 98, 157, 60, 204, 62, 28, 246, 244, 164>>,
      <<0, 0, 0, 0, 0, 0, 0, 0, 0, 0, 0, 0, 0, 0, 0, 228, 188, 236, 65, 69, 25, 184, 147, 220, 37, 94, 250, 115, 26, 157, 145, 113>>,
      <<0, 0, 0, 0, 0, 0, 0, 0, 0, 0, 0, 0, 0, 0, 0, 232, 96, 63, 147, 180, 252, 48, 197, 157, 122, 173, 199, 135, 8, 35, 176, 111>>,
      <<0, 0, 0, 0, 0, 0, 0, 0, 0, 0, 0, 0, 0, 0, 0, 16, 201, 121, 192, 13, 223, 233, 179, 41, 202, 198, 204, 77, 85, 94, 225, 92>>,
      <<0, 0, 0, 0, 0, 0, 0, 0, 0, 0, 0, 0, 0, 0, 0, 160, 218, 193, 132, 137, 182, 34, 7, 161, 229, 195, 255, 9, 85, 175, 205, 160>>,
      <<0, 0, 0, 0, 0, 0, 0, 0, 0, 0, 0, 0, 0, 0, 0, 64, 138, 146, 47, 95, 33, 91, 71, 74, 248, 166, 253, 99, 82, 217, 8, 72>>,
      <<0, 0, 0, 0, 0, 0, 0, 0, 0, 0, 0, 0, 0, 0, 0, 128, 102, 185, 219, 183, 77, 143, 201, 230, 178, 133, 232, 231, 55, 125, 88, 208>>,
      <<0, 0, 0, 0, 0, 0, 0, 0, 0, 0, 0, 0, 0, 0, 0, 0, 1, 62, 149, 46, 9, 153, 223, 3, 253, 56, 21, 15, 47, 228, 116, 35>>,
      <<0, 0, 0, 0, 0, 0, 0, 0, 0, 0, 0, 0, 0, 0, 0, 0, 10, 108, 212, 209, 91, 250, 187, 38, 226, 57, 212, 150, 214, 233, 144, 98>>,
      <<0, 0, 0, 0, 0, 0, 0, 0, 0, 0, 0, 0, 0, 0, 0, 0, 100, 56, 76, 50, 150, 199, 87, 131, 213, 66, 74, 228, 97, 34, 169, 217>>,
      <<0, 0, 0, 0, 0, 0, 0, 0, 0, 0, 0, 0, 0, 0, 0, 0, 232, 51, 250, 246, 221, 203, 109, 33, 87, 156, 230, 234, 210, 87, 155, 128>>,
      <<0, 0, 0, 0, 0, 0, 0, 0, 0, 0, 0, 0, 0, 0, 0, 0, 16, 7, 198, 165, 171, 246, 73, 78, 103, 27, 2, 45, 61, 110, 17, 6>>,
      <<0, 0, 0, 0, 0, 0, 0, 0, 0, 0, 0, 0, 0, 0, 0, 0, 160, 70, 188, 121, 180, 162, 227, 14, 9, 18, 21, 194, 99, 78, 174, 60>>,
      <<0, 0, 0, 0, 0, 0, 0, 0, 0, 0, 0, 0, 0, 0, 0, 0, 64, 194, 90, 193, 12, 91, 228, 148, 90, 180, 210, 148, 229, 15, 207, 94>>,
      <<0, 0, 0, 0, 0, 0, 0, 0, 0, 0, 0, 0, 0, 0, 0, 0, 128, 150, 139, 141, 127, 142, 235, 208, 137, 11, 59, 208, 247, 158, 22, 180>>,
      <<0, 0, 0, 0, 0, 0, 0, 0, 0, 0, 0, 0, 0, 0, 0, 0, 0, 225, 115, 135, 251, 144, 51, 41, 98, 115, 78, 34, 174, 53, 226, 8>>,
      <<0, 0, 0, 0, 0, 0, 0, 0, 0, 0, 0, 0, 0, 0, 0, 0, 0, 202, 134, 74, 211, 169, 3, 156, 213, 129, 16, 87, 205, 24, 214, 88>>,
      <<0, 0, 0, 0, 0, 0, 0, 0, 0, 0, 0, 0, 0, 0, 0, 0, 0, 228, 67, 233, 64, 162, 36, 24, 88, 18, 165, 102, 5, 248, 92, 120>>,
      <<0, 0, 0, 0, 0, 0, 0, 0, 0, 0, 0, 0, 0, 0, 0, 0, 0, 232, 166, 28, 137, 86, 110, 241, 112, 183, 114, 2, 54, 176, 161, 179>>,
      <<0, 0, 0, 0, 0, 0, 0, 0, 0, 0, 0, 0, 0, 0, 0, 0, 0, 16, 133, 30, 91, 97, 79, 110, 105, 42, 123, 24, 28, 226, 80, 4>>,
      <<0, 0, 0, 0, 0, 0, 0, 0, 0, 0, 0, 0, 0, 0, 0, 0, 0, 160, 50, 49, 143, 205, 25, 79, 30, 168, 207, 244, 24, 213, 40, 43>>,
      <<0, 0, 0, 0, 0, 0, 0, 0, 0, 0, 0, 0, 0, 0, 0, 0, 0, 64, 250, 235, 151, 7, 2, 23, 47, 145, 28, 144, 249, 82, 152, 175>>,
      <<0, 0, 0, 0, 0, 0, 0, 0, 0, 0, 0, 0, 0, 0, 0, 0, 0, 128, 198, 55, 239, 75, 20, 230, 214, 171, 29, 161, 191, 61, 243, 219>>,
      <<0, 0, 0, 0, 0, 0, 0, 0, 0, 0, 0, 0, 0, 0, 0, 0, 0, 0, 193, 45, 88, 247, 202, 252, 100, 182, 40, 75, 124, 105, 128, 151>>,
      <<0, 0, 0, 0, 0, 0, 0, 0, 0, 0, 0, 0, 0, 0, 0, 0, 0, 0, 138, 201, 113, 169, 237, 223, 241, 31, 151, 239, 218, 30, 4, 235>>,
      <<0, 0, 0, 0, 0, 0, 0, 0, 0, 0, 0, 0, 0, 0, 0, 0, 0, 0, 100, 223, 113, 158, 72, 191, 114, 63, 231, 91, 141, 52, 41, 46>>,
      <<0, 0, 0, 0, 0, 0, 0, 0, 0, 0, 0, 0, 0, 0, 0, 0, 0, 0, 232, 185, 114, 48, 214, 120, 123, 122, 8, 151, 133, 13, 156, 205>>,
      <<0, 0, 0, 0, 0, 0, 0, 0, 0, 0, 0, 0, 0, 0, 0, 0, 0, 0, 16, 67, 123, 228, 93, 184, 210, 200, 84, 230, 55, 135, 24, 8>>,
      <<0, 0, 0, 0, 0, 0, 0, 0, 0, 0, 0, 0, 0, 0, 0, 0, 0, 0, 160, 158, 208, 236, 170, 51, 59, 216, 79, 255, 46, 72, 245, 80>>,
      <<0, 0, 0, 0, 0, 0, 0, 0, 0, 0, 0, 0, 0, 0, 0, 0, 0, 0, 64, 50, 38, 64, 173, 4, 80, 114, 30, 249, 213, 209, 148, 41>>,
      <<0, 0, 0, 0, 0, 0, 0, 0, 0, 0, 0, 0, 0, 0, 0, 0, 0, 0, 128, 246, 125, 129, 196, 46, 32, 119, 48, 187, 91, 50, 208, 159>>,
      <<0, 0, 0, 0, 0, 0, 0, 0, 0, 0, 0, 0, 0, 0, 0, 0, 0, 0, 0, 161, 235, 14, 173, 211, 65, 167, 228, 79, 149, 247, 33, 62>>,
      <<0, 0, 0, 0, 0, 0, 0, 0, 0, 0, 0, 0, 0, 0, 0, 0, 0, 0, 0, 74, 52, 149, 194, 68, 146, 136, 238, 30, 213, 171, 83, 109>>,
      <<0, 0, 0, 0, 0, 0, 0, 0, 0, 0, 0, 0, 0, 0, 0, 0, 0, 0, 0, 228, 10, 212, 153, 175, 182, 85, 81, 53, 83, 182, 68, 69>>,
      <<0, 0, 0, 0, 0, 0, 0, 0, 0, 0, 0, 0, 0, 0, 0, 0, 0, 0, 0, 232, 108, 72, 2, 220, 34, 89, 45, 21, 64, 31, 175, 180>>,
      <<0, 0, 0, 0, 0, 0, 0, 0, 0, 0, 0, 0, 0, 0, 0, 0, 0, 0, 0, 16, 65, 212, 22, 152, 92, 123, 197, 211, 128, 56, 215, 14>>,
      <<0, 0, 0, 0, 0, 0, 0, 0, 0, 0, 0, 0, 0, 0, 0, 0, 0, 0, 0, 160, 138, 74, 228, 240, 157, 209, 182, 69, 8, 53, 104, 148>>,
      <<0, 0, 0, 0, 0, 0, 0, 0, 0, 0, 0, 0, 0, 0, 0, 0, 0, 0, 0, 64, 106, 233, 234, 104, 43, 48, 36, 185, 82, 18, 18, 204>>,
      <<0, 0, 0, 0, 0, 0, 0, 0, 0, 0, 0, 0, 0, 0, 0, 0, 0, 0, 0, 128, 38, 30, 45, 25, 178, 225, 105, 59, 59, 183, 180, 248>>,
      <<0, 0, 0, 0, 0, 0, 0, 0, 0, 0, 0, 0, 0, 0, 0, 0, 0, 0, 0, 0, 129, 45, 195, 251, 244, 208, 34, 82, 80, 40, 15, 183>>,
      <<0, 0, 0, 0, 0, 0, 0, 0, 0, 0, 0, 0, 0, 0, 0, 0, 0, 0, 0, 0, 10, 199, 159, 213, 145, 41, 92, 53, 35, 147, 151, 38>>,
      <<0, 0, 0, 0, 0, 0, 0, 0, 0, 0, 0, 0, 0, 0, 0, 0, 0, 0, 0, 0, 100, 198, 61, 88, 178, 159, 153, 21, 96, 191, 235, 129>>,
      <<0, 0, 0, 0, 0, 0, 0, 0, 0, 0, 0, 0, 0, 0, 0, 0, 0, 0, 0, 0, 232, 191, 105, 114, 247, 60, 0, 216, 192, 121, 53, 19>>,
      <<0, 0, 0, 0, 0, 0, 0, 0, 0, 0, 0, 0, 0, 0, 0, 0, 0, 0, 0, 0, 16, 127, 33, 120, 170, 97, 2, 112, 136, 193, 22, 192>>,
      <<0, 0, 0, 0, 0, 0, 0, 0, 0, 0, 0, 0, 0, 0, 0, 0, 0, 0, 0, 0, 160, 246, 78, 177, 168, 208, 23, 96, 84, 143, 227, 128>>,
      <<0, 0, 0, 0, 0, 0, 0, 0, 0, 0, 0, 0, 0, 0, 0, 0, 0, 0, 0, 0, 64, 162, 21, 237, 150, 38, 238, 192, 75, 153, 227, 8>>,
      <<0, 0, 0, 0, 0, 0, 0, 0, 0, 0, 0, 0, 0, 0, 0, 0, 0, 0, 0, 0, 128, 86, 216, 66, 229, 129, 77, 137, 245, 252, 227, 88>>,
      <<0, 0, 0, 0, 0, 0, 0, 0, 0, 0, 0, 0, 0, 0, 0, 0, 0, 0, 0, 0, 0, 97, 115, 156, 244, 18, 7, 93, 151, 225, 231, 120>>,
      <<0, 0, 0, 0, 0, 0, 0, 0, 0, 0, 0, 0, 0, 0, 0, 0, 0, 0, 0, 0, 0, 202, 129, 28, 142, 189, 70, 162, 233, 207, 14, 185>>,
      <<0, 0, 0, 0, 0, 0, 0, 0, 0, 0, 0, 0, 0, 0, 0, 0, 0, 0, 0, 0, 0, 228, 17, 29, 141, 103, 195, 86, 32, 31, 148, 58>>,
      <<0, 0, 0, 0, 0, 0, 0, 0, 0, 0, 0, 0, 0, 0, 0, 0, 0, 0, 0, 0, 0, 232, 178, 34, 131, 11, 162, 99, 67, 55, 201, 73>>,
      <<0, 0, 0, 0, 0, 0, 0, 0, 0, 0, 0, 0, 0, 0, 0, 0, 0, 0, 0, 0, 0, 16, 253, 90, 31, 115, 84, 228, 161, 40, 220, 225>>,
      <<0, 0, 0, 0, 0, 0, 0, 0, 0, 0, 0, 0, 0, 0, 0, 0, 0, 0, 0, 0, 0, 160, 226, 141, 57, 127, 76, 235, 82, 150, 153, 210>>,
      <<0, 0, 0, 0, 0, 0, 0, 0, 0, 0, 0, 0, 0, 0, 0, 0, 0, 0, 0, 0, 0, 64, 218, 138, 63, 248, 252, 48, 61, 223, 255, 57>>,
      <<0, 0, 0, 0, 0, 0, 0, 0, 0, 0, 0, 0, 0, 0, 0, 0, 0, 0, 0, 0, 0, 128, 134, 108, 123, 178, 225, 233, 99, 184, 254, 67>>,
      <<0, 0, 0, 0, 0, 0, 0, 0, 0, 0, 0, 0, 0, 0, 0, 0, 0, 0, 0, 0, 0, 0, 65, 61, 210, 248, 208, 34, 231, 51, 243, 167>>,
      <<0, 0, 0, 0, 0, 0, 0, 0, 0, 0, 0, 0, 0, 0, 0, 0, 0, 0, 0, 0, 0, 0, 138, 100, 54, 184, 41, 92, 7, 7, 128, 143>>,
      <<0, 0, 0, 0, 0, 0, 0, 0, 0, 0, 0, 0, 0, 0, 0, 0, 0, 0, 0, 0, 0, 0, 100, 237, 31, 50, 161, 153, 73, 70, 0, 155>>,
      <<0, 0, 0, 0, 0, 0, 0, 0, 0, 0, 0, 0, 0, 0, 0, 0, 0, 0, 0, 0, 0, 0, 232, 69, 63, 245, 75, 0, 224, 190, 2, 14>>,
      <<0, 0, 0, 0, 0, 0, 0, 0, 0, 0, 0, 0, 0, 0, 0, 0, 0, 0, 0, 0, 0, 0, 16, 187, 120, 148, 247, 2, 192, 116, 27, 140>>,
      <<0, 0, 0, 0, 0, 0, 0, 0, 0, 0, 0, 0, 0, 0, 0, 0, 0, 0, 0, 0, 0, 0, 160, 78, 183, 204, 171, 29, 128, 143, 18, 121>>,
      <<0, 0, 0, 0, 0, 0, 0, 0, 0, 0, 0, 0, 0, 0, 0, 0, 0, 0, 0, 0, 0, 0, 64, 18, 41, 255, 181, 40, 1, 155, 185, 186>>,
      <<0, 0, 0, 0, 0, 0, 0, 0, 0, 0, 0, 0, 0, 0, 0, 0, 0, 0, 0, 0, 0, 0, 128, 182, 154, 247, 27, 151, 11, 14, 64, 75>>,
      <<0, 0, 0, 0, 0, 0, 0, 0, 0, 0, 0, 0, 0, 0, 0, 0, 0, 0, 0, 0, 0, 0, 0, 33, 11, 172, 23, 231, 115, 140, 128, 240>>,
      <<0, 0, 0, 0, 0, 0, 0, 0, 0, 0, 0, 0, 0, 0, 0, 0, 0, 0, 0, 0, 0, 0, 0, 74, 111, 184, 236, 6, 135, 124, 5, 101>>,
      <<0, 0, 0, 0, 0, 0, 0, 0, 0, 0, 0, 0, 0, 0, 0, 0, 0, 0, 0, 0, 0, 0, 0, 228, 88, 52, 63, 69, 70, 221, 54, 242>>,
      <<0, 0, 0, 0, 0, 0, 0, 0, 0, 0, 0, 0, 0, 0, 0, 0, 0, 0, 0, 0, 0, 0, 0, 232, 120, 11, 120, 180, 190, 164, 36, 118>>,
      <<0, 0, 0, 0, 0, 0, 0, 0, 0, 0, 0, 0, 0, 0, 0, 0, 0, 0, 0, 0, 0, 0, 0, 16, 185, 114, 176, 12, 115, 111, 110, 157>>,
      <<0, 0, 0, 0, 0, 0, 0, 0, 0, 0, 0, 0, 0, 0, 0, 0, 0, 0, 0, 0, 0, 0, 0, 160, 58, 123, 228, 126, 126, 90, 80, 38>>,
      <<0, 0, 0, 0, 0, 0, 0, 0, 0, 0, 0, 0, 0, 0, 0, 0, 0, 0, 0, 0, 0, 0, 0, 64, 74, 208, 236, 244, 240, 136, 35, 127>>,
      <<0, 0, 0, 0, 0, 0, 0, 0, 0, 0, 0, 0, 0, 0, 0, 0, 0, 0, 0, 0, 0, 0, 0, 128, 230, 34, 64, 145, 105, 89, 99, 247>>,
      <<0, 0, 0, 0, 0, 0, 0, 0, 0, 0, 0, 0, 0, 0, 0, 0, 0, 0, 0, 0, 0, 0, 0, 0, 1, 93, 129, 172, 31, 126, 225, 169>>,
      <<0, 0, 0, 0, 0, 0, 0, 0, 0, 0, 0, 0, 0, 0, 0, 0, 0, 0, 0, 0, 0, 0, 0, 0, 10, 162, 13, 189, 60, 237, 206, 162>>,
      <<0, 0, 0, 0, 0, 0, 0, 0, 0, 0, 0, 0, 0, 0, 0, 0, 0, 0, 0, 0, 0, 0, 0, 0, 100, 84, 136, 98, 95, 68, 21, 92>>,
      <<0, 0, 0, 0, 0, 0, 0, 0, 0, 0, 0, 0, 0, 0, 0, 0, 0, 0, 0, 0, 0, 0, 0, 0, 232, 75, 83, 217, 185, 171, 212, 152>>,
      <<0, 0, 0, 0, 0, 0, 0, 0, 0, 0, 0, 0, 0, 0, 0, 0, 0, 0, 0, 0, 0, 0, 0, 0, 16, 247, 64, 125, 66, 181, 78, 248>>,
      <<0, 0, 0, 0, 0, 0, 0, 0, 0, 0, 0, 0, 0, 0, 0, 0, 0, 0, 0, 0, 0, 0, 0, 0, 160, 166, 137, 228, 152, 20, 19, 179>>,
      <<0, 0, 0, 0, 0, 0, 0, 0, 0, 0, 0, 0, 0, 0, 0, 0, 0, 0, 0, 0, 0, 0, 0, 0, 64, 130, 96, 237, 248, 205, 190, 254>>,
      <<0, 0, 0, 0, 0, 0, 0, 0, 0, 0, 0, 0, 0, 0, 0, 0, 0, 0, 0, 0, 0, 0, 0, 0, 128, 22, 197, 69, 185, 11, 116, 243>>,
      <<0, 0, 0, 0, 0, 0, 0, 0, 0, 0, 0, 0, 0, 0, 0, 0, 0, 0, 0, 0, 0, 0, 0, 0, 0, 225, 178, 185, 60, 117, 136, 130>>,
      <<0, 0, 0, 0, 0, 0, 0, 0, 0, 0, 0, 0, 0, 0, 0, 0, 0, 0, 0, 0, 0, 0, 0, 0, 0, 202, 252, 64, 95, 148, 84, 25>>,
      <<0, 0, 0, 0, 0, 0, 0, 0, 0, 0, 0, 0, 0, 0, 0, 0, 0, 0, 0, 0, 0, 0, 0, 0, 0, 228, 223, 137, 184, 203, 77, 253>>,
      <<0, 0, 0, 0, 0, 0, 0, 0, 0, 0, 0, 0, 0, 0, 0, 0, 0, 0, 0, 0, 0, 0, 0, 0, 0, 232, 190, 98, 53, 245, 9, 229>>,
      <<0, 0, 0, 0, 0, 0, 0, 0, 0, 0, 0, 0, 0, 0, 0, 0, 0, 0, 0, 0, 0, 0, 0, 0, 0, 16, 117, 219, 21, 148, 99, 242>>,
      <<0, 0, 0, 0, 0, 0, 0, 0, 0, 0, 0, 0, 0, 0, 0, 0, 0, 0, 0, 0, 0, 0, 0, 0, 0, 160, 146, 146, 218, 200, 227, 119>>,
      <<0, 0, 0, 0, 0, 0, 0, 0, 0, 0, 0, 0, 0, 0, 0, 0, 0, 0, 0, 0, 0, 0, 0, 0, 0, 64, 186, 185, 137, 216, 229, 174>>,
      <<0, 0, 0, 0, 0, 0, 0, 0, 0, 0, 0, 0, 0, 0, 0, 0, 0, 0, 0, 0, 0, 0, 0, 0, 0, 128, 70, 65, 97, 117, 250, 212>>,
      <<0, 0, 0, 0, 0, 0, 0, 0, 0, 0, 0, 0, 0, 0, 0, 0, 0, 0, 0, 0, 0, 0, 0, 0, 0, 0, 193, 140, 204, 149, 200, 81>>,
      <<0, 0, 0, 0, 0, 0, 0, 0, 0, 0, 0, 0, 0, 0, 0, 0, 0, 0, 0, 0, 0, 0, 0, 0, 0, 0, 138, 127, 253, 217, 213, 49>>,
      <<0, 0, 0, 0, 0, 0, 0, 0, 0, 0, 0, 0, 0, 0, 0, 0, 0, 0, 0, 0, 0, 0, 0, 0, 0, 0, 100, 251, 230, 131, 90, 242>>,
      <<0, 0, 0, 0, 0, 0, 0, 0, 0, 0, 0, 0, 0, 0, 0, 0, 0, 0, 0, 0, 0, 0, 0, 0, 0, 0, 232, 209, 5, 39, 137, 119>>,
      <<0, 0, 0, 0, 0, 0, 0, 0, 0, 0, 0, 0, 0, 0, 0, 0, 0, 0, 0, 0, 0, 0, 0, 0, 0, 0, 16, 51, 58, 134, 91, 171>>,
      <<0, 0, 0, 0, 0, 0, 0, 0, 0, 0, 0, 0, 0, 0, 0, 0, 0, 0, 0, 0, 0, 0, 0, 0, 0, 0, 160, 254, 69, 62, 147, 177>>,
      <<0, 0, 0, 0, 0, 0, 0, 0, 0, 0, 0, 0, 0, 0, 0, 0, 0, 0, 0, 0, 0, 0, 0, 0, 0, 0, 64, 242, 187, 110, 192, 239>>,
      <<0, 0, 0, 0, 0, 0, 0, 0, 0, 0, 0, 0, 0, 0, 0, 0, 0, 0, 0, 0, 0, 0, 0, 0, 0, 0, 128, 118, 87, 83, 132, 93>>,
      <<0, 0, 0, 0, 0, 0, 0, 0, 0, 0, 0, 0, 0, 0, 0, 0, 0, 0, 0, 0, 0, 0, 0, 0, 0, 0, 0, 161, 106, 65, 43, 167>>,
      <<0, 0, 0, 0, 0, 0, 0, 0, 0, 0, 0, 0, 0, 0, 0, 0, 0, 0, 0, 0, 0, 0, 0, 0, 0, 0, 0, 74, 42, 142, 176, 135>>,
      <<0, 0, 0, 0, 0, 0, 0, 0, 0, 0, 0, 0, 0, 0, 0, 0, 0, 0, 0, 0, 0, 0, 0, 0, 0, 0, 0, 228, 166, 141, 229, 76>>,
      <<0, 0, 0, 0, 0, 0, 0, 0, 0, 0, 0, 0, 0, 0, 0, 0, 0, 0, 0, 0, 0, 0, 0, 0, 0, 0, 0, 232, 132, 136, 247>>,
      <<0, 0, 0, 0, 0, 0, 0, 0, 0, 0, 0, 0, 0, 0, 0, 0, 0, 0, 0, 0, 0, 0, 0, 0, 0, 0, 0, 16, 49, 85, 171, 9>>,
      <<0, 0, 0, 0, 0, 0, 0, 0, 0, 0, 0, 0, 0, 0, 0, 0, 0, 0, 0, 0, 0, 0, 0, 0, 0, 0, 0, 160, 234, 83, 177, 96>>,
      <<0, 0, 0, 0, 0, 0, 0, 0, 0, 0, 0, 0, 0, 0, 0, 0, 0, 0, 0, 0, 0, 0, 0, 0, 0, 0, 0, 64, 42, 71, 237, 198>>,
      <<0, 0, 0, 0, 0, 0, 0, 0, 0, 0, 0, 0, 0, 0, 0, 0, 0, 0, 0, 0, 0, 0, 0, 0, 0, 0, 0, 128, 166, 199, 68, 197>>,
      <<0, 0, 0, 0, 0, 0, 0, 0, 0, 0, 0, 0, 0, 0, 0, 0, 0, 0, 0, 0, 0, 0, 0, 0, 0, 0, 0, 0, 129, 204, 175, 180>>,
      <<0, 0, 0, 0, 0, 0, 0, 0, 0, 0, 0, 0, 0, 0, 0, 0, 0, 0, 0, 0, 0, 0, 0, 0, 0, 0, 0, 0, 10, 253, 221, 14>>,
      <<0, 0, 0, 0, 0, 0, 0, 0, 0, 0, 0, 0, 0, 0, 0, 0, 0, 0, 0, 0, 0, 0, 0, 0, 0, 0, 0, 0, 100, 226, 171, 148>>,
      <<0, 0, 0, 0, 0, 0, 0, 0, 0, 0, 0, 0, 0, 0, 0, 0, 0, 0, 0, 0, 0, 0, 0, 0, 0, 0, 0, 0, 232, 215, 182, 206>>,
      <<0, 0, 0, 0, 0, 0, 0, 0, 0, 0, 0, 0, 0, 0, 0, 0, 0, 0, 0, 0, 0, 0, 0, 0, 0, 0, 0, 0, 16, 111, 36, 19>>,
      <<0, 0, 0, 0, 0, 0, 0, 0, 0, 0, 0, 0, 0, 0, 0, 0, 0, 0, 0, 0, 0, 0, 0, 0, 0, 0, 0, 0, 160, 86, 108, 191>>,
      <<0, 0, 0, 0, 0, 0, 0, 0, 0, 0, 0, 0, 0, 0, 0, 0, 0, 0, 0, 0, 0, 0, 0, 0, 0, 0, 0, 0, 64, 98, 59, 122>>,
      <<0, 0, 0, 0, 0, 0, 0, 0, 0, 0, 0, 0, 0, 0, 0, 0, 0, 0, 0, 0, 0, 0, 0, 0, 0, 0, 0, 0, 128, 214, 81, 198>>,
      <<0, 0, 0, 0, 0, 0, 0, 0, 0, 0, 0, 0, 0, 0, 0, 0, 0, 0, 0, 0, 0, 0, 0, 0, 0, 0, 0, 0, 0, 97, 50, 191>>,
      <<0, 0, 0, 0, 0, 0, 0, 0, 0, 0, 0, 0, 0, 0, 0, 0, 0, 0, 0, 0, 0, 0, 0, 0, 0, 0, 0, 0, 0, 202, 247, 119>>,
      <<0, 0, 0, 0, 0, 0, 0, 0, 0, 0, 0, 0, 0, 0, 0, 0, 0, 0, 0, 0, 0, 0, 0, 0, 0, 0, 0, 0, 0, 228, 173, 175>>,
      <<0, 0, 0, 0, 0, 0, 0, 0, 0, 0, 0, 0, 0, 0, 0, 0, 0, 0, 0, 0, 0, 0, 0, 0, 0, 0, 0, 0, 0, 232, 202, 220>>,
      <<0, 0, 0, 0, 0, 0, 0, 0, 0, 0, 0, 0, 0, 0, 0, 0, 0, 0, 0, 0, 0, 0, 0, 0, 0, 0, 0, 0, 0, 16, 237, 159>>,
      <<0, 0, 0, 0, 0, 0, 0, 0, 0, 0, 0, 0, 0, 0, 0, 0, 0, 0, 0, 0, 0, 0, 0, 0, 0, 0, 0, 0, 0, 160, 66, 63>>,
      <<0, 0, 0, 0, 0, 0, 0, 0, 0, 0, 0, 0, 0, 0, 0, 0, 0, 0, 0, 0, 0, 0, 0, 0, 0, 0, 0, 0, 0, 64, 154, 120>>,
      <<0, 0, 0, 0, 0, 0, 0, 0, 0, 0, 0, 0, 0, 0, 0, 0, 0, 0, 0, 0, 0, 0, 0, 0, 0, 0, 0, 0, 0, 128, 6, 182>>,
      <<0, 0, 0, 0, 0, 0, 0, 0, 0, 0, 0, 0, 0, 0, 0, 0, 0, 0, 0, 0, 0, 0, 0, 0, 0, 0, 0, 0, 0, 0, 65, 28>>,
      <<0, 0, 0, 0, 0, 0, 0, 0, 0, 0, 0, 0, 0, 0, 0, 0, 0, 0, 0, 0, 0, 0, 0, 0, 0, 0, 0, 0, 0, 0, 138, 26>>,
      <<0, 0, 0, 0, 0, 0, 0, 0, 0, 0, 0, 0, 0, 0, 0, 0, 0, 0, 0, 0, 0, 0, 0, 0, 0, 0, 0, 0, 0, 0, 100, 9>>,
      <<0, 0, 0, 0, 0, 0, 0, 0, 0, 0, 0, 0, 0, 0, 0, 0, 0, 0, 0, 0, 0, 0, 0, 0, 0, 0, 0, 0, 0, 0, 232, 93>>,
      <<0, 0, 0, 0, 0, 0, 0, 0, 0, 0, 0, 0, 0, 0, 0, 0, 0, 0, 0, 0, 0, 0, 0, 0, 0, 0, 0, 0, 0, 0, 16, 171>>,
      <<0, 0, 0, 0, 0, 0, 0, 0, 0, 0, 0, 0, 0, 0, 0, 0, 0, 0, 0, 0, 0, 0, 0, 0, 0, 0, 0, 0, 0, 0, 160, 174>>,
      <<0, 0, 0, 0, 0, 0, 0, 0, 0, 0, 0, 0, 0, 0, 0, 0, 0, 0, 0, 0, 0, 0, 0, 0, 0, 0, 0, 0, 0, 0, 64, 210>>,
      <<0, 0, 0, 0, 0, 0, 0, 0, 0, 0, 0, 0, 0, 0, 0, 0, 0, 0, 0, 0, 0, 0, 0, 0, 0, 0, 0, 0, 0, 0, 128, 54>>,
      <<0, 0, 0, 0, 0, 0, 0, 0, 0, 0, 0, 0, 0, 0, 0, 0, 0, 0, 0, 0, 0, 0, 0, 0, 0, 0, 0, 0, 0, 0, 0, 33>>,
      <<0, 0, 0, 0, 0, 0, 0, 0, 0, 0, 0, 0, 0, 0, 0, 0, 0, 0, 0, 0, 0, 0, 0, 0, 0, 0, 0, 0, 0, 0, 0, 74>>,
      <<0, 0, 0, 0, 0, 0, 0, 0, 0, 0, 0, 0, 0, 0, 0, 0, 0, 0, 0, 0, 0, 0, 0, 0, 0, 0, 0, 0, 0, 0, 0, 228>>,
      <<0, 0, 0, 0, 0, 0, 0, 0, 0, 0, 0, 0, 0, 0, 0, 0, 0, 0, 0, 0, 0, 0, 0, 0, 0, 0, 0, 0, 0, 0, 0, 232>>,
      <<0, 0, 0, 0, 0, 0, 0, 0, 0, 0, 0, 0, 0, 0, 0, 0, 0, 0, 0, 0, 0, 0, 0, 0, 0, 0, 0, 0, 0, 0, 0, 16>>,
      <<0, 0, 0, 0, 0, 0, 0, 0, 0, 0, 0, 0, 0, 0, 0, 0, 0, 0, 0, 0, 0, 0, 0, 0, 0, 0, 0, 0, 0, 0, 0, 160>>,
      <<0, 0, 0, 0, 0, 0, 0, 0, 0, 0, 0, 0, 0, 0, 0, 0, 0, 0, 0, 0, 0, 0, 0, 0, 0, 0, 0, 0, 0, 0, 0, 64>>,
      <<0, 0, 0, 0, 0, 0, 0, 0, 0, 0, 0, 0, 0, 0, 0, 0, 0, 0, 0, 0, 0, 0, 0, 0, 0, 0, 0, 0, 0, 0, 0, 128>>
    >>

ExpScale(n) == ExpScaleTable[n + 1]

\* The table holds the wrapped powers of ten.
ExpScaleTableIsPowersOfTen ==
    \A n \in ExpDomain : ExpScaleTable[n + 1] = U256Mod(NatPow10(n))

(***************************************************************************)
(* The heap.  A machine m is a record                                      *)
(*   decs  : the Decimal objects, [value |-> address in ints, mantissa]    *)
(*   ints  : the uint256.Int objects                                       *)
(*   exps  : the exponents passed to ExpScale so far in the current call   *)
(*   panic : TRUE once ExpScale was called outside its domain and the      *)
(*           provider panicked                                             *)
(* An address is an index; Nil is the nil pointer.  Allocation appends.    *)
(***************************************************************************)
Nil == 0

ZeroAddr == 1

Uint8 == 256

NewInt(m, v) == [m EXCEPT !.ints = Append(@, v)]

LastInt(m) == Len(m.ints)

LastDec(m) == Len(m.decs)

ValueOf(m, p) == m.ints[m.decs[p].value]

MantissaOf(m, p) == m.decs[p].mantissa

\* d.value.<op>(...) : writes the uint256.Int that p.value points to
WriteValue(m, p, v) == [m EXCEPT !.ints[m.decs[p].value] = v]

WriteMantissa(m, p, mant) == [m EXCEPT !.decs[p].mantissa = mant]

NewDecimalZero(m) ==
    LET m1 == NewInt(m, <<>>)
    IN  [m1 EXCEPT !.decs = Append(@, [value |-> LastInt(m1), mantissa |-> 0])]

\* NewDecimalFromUint256 keeping the pointer it is given instead of copying
\* the four words
NewDecimalSharingValue(m, value, mantissa) ==
    [m EXCEPT !.decs = Append(@, [value |-> value, mantissa |-> mantissa])]

NewDecimalFromUint256(m, value, mantissa) ==
    LET m1 == NewInt(m, m.ints[value])
    IN  [m1 EXCEPT !.decs = Append(@, [value |-> LastInt(m1), mantissa |-> mantissa])]

NewDecimal(m, decimal) ==
    IF decimal = Nil
    THEN LET m1 == NewDecimalZero(m)
         IN  NewDecimalFromUint256(m1, m1.decs[LastDec(m1)].value, 0)
    ELSE NewDecimalFromUint256(m, m.decs[decimal].value, m.decs[decimal].mantissa)

\* The call ExpScale(n) made on machine m: logs n; outside the domain the
\* provider either panics or returns the wrapped power, as oob says.
CallExpScale(m, n, oob) ==
    LET m1 == [m EXCEPT !.exps = Append(@, n)]
    IN  IF n \in ExpDomain THEN [m |-> m1, val |-> ExpScale(n)]
        ELSE IF oob = "panic" THEN [m |-> [m1 EXCEPT !.panic = TRUE], val |-> <<>>]
        ELSE [m |-> m1, val |-> U256Mod(NatPow10(n))]

Rescale(m, d, mantissa) ==
    IF d = Nil THEN m
    ELSE IF mantissa = MantissaOf(m, d) THEN m
    ELSE IF mantissa > MantissaOf(m, d)
    THEN LET Multiplied(e) ==
                 WriteMantissa(WriteValue(e.m, d, U256Mul(ValueOf(m, d), e.val)),
                               d, mantissa)
         IN  Multiplied(CallExpScale(m, (mantissa - MantissaOf(m, d)) % Uint8,
                                     "wrap"))
    ELSE LET Divided(e) ==
                 WriteMantissa(WriteValue(e.m, d, U256Div(ValueOf(m, d), e.val)),
                               d, mantissa)
         IN  Divided(CallExpScale(m, (MantissaOf(m, d) - mantissa) % Uint8,
                                  "wrap"))

\* The scale alignment every comparison, Add, Sub and Mul starts with.
Align(m, xx, yy) ==
    IF MantissaOf(m, yy) > MantissaOf(m, xx) THEN Rescale(m, xx, MantissaOf(m, yy))
    ELSE IF MantissaOf(m, yy) < MantissaOf(m, xx) THEN Rescale(m, yy, MantissaOf(m, xx))
    ELSE m

\* xx := NewDecimal(d); yy := NewDecimal(y); align.  The copies are the
\* last two Decimals of the resulting machine.
Operands(m, d, y) ==
    LET m1 == NewDecimal(m, d)
        xx == LastDec(m1)
        m2 == NewDecimal(m1, y)
        yy == LastDec(m2)
    IN  [m |-> Align(m2, xx, yy), xx |-> xx, yy |-> yy]

Eq(m, d, y) ==
    LET Compared(o) ==
            [m |-> o.m, res |-> U256Eq(ValueOf(o.m, o.xx), ValueOf(o.m, o.yy))]
    IN  Compared(Operands(m, d, y))

Gt(m, d, y) ==
    LET Compared(o) ==
            [m |-> o.m, res |-> U256Gt(ValueOf(o.m, o.xx), ValueOf(o.m, o.yy))]
    IN  Compared(Operands(m, d, y))

Lt(m, d, y) ==
    LET Compared(o) ==
            [m |-> o.m, res |-> U256Lt(ValueOf(o.m, o.xx), ValueOf(o.m, o.yy))]
    IN  Compared(Operands(m, d, y))

Add(m, d, y) ==
    LET Written(o) ==
            WriteMantissa(
                WriteValue(o.m, d, U256Add(ValueOf(o.m, o.xx), ValueOf(o.m, o.yy))),
                d, MantissaOf(o.m, o.xx))
    IN  [m |-> Written(Operands(m, d, y)), ret |-> d]

Sub(m, d, y) ==
    LET Written(o) ==
            WriteMantissa(
                WriteValue(o.m, d, U256Sub(ValueOf(o.m, o.xx), ValueOf(o.m, o.yy))),
                d, MantissaOf(o.m, o.xx))
    IN  [m |-> Written(Operands(m, d, y)), ret |-> d]

\* the scale of Mul set as Add and Sub set theirs: d.mantissa = xx.mantissa
MulMantissaOfReceiver(xm, ym) == xm

MulMantissa(xm, ym) == (xm + ym) % Uint8

Mul(m, d, y) ==
    LET Written(o) ==
            WriteMantissa(
                WriteValue(o.m, d, U256Mul(ValueOf(o.m, o.xx), ValueOf(o.m, o.yy))),
                d, MulMantissa(MantissaOf(o.m, o.xx), MantissaOf(o.m, o.yy)))
    IN  [m |-> Written(Operands(m, d, y)), ret |-> d]

defaultDivScale == 20

\* the guard of Div comparing the fields of y with those of Zero, without
\* aligning the scales
DivisorIsZeroUnscaled(m, y) ==
    [m   |-> m,
     res |-> /\ U256Eq(ValueOf(m, y), ValueOf(m, ZeroAddr))
             /\ MantissaOf(m, y) = MantissaOf(m, ZeroAddr)]

\* The guard of Div: y.Eq(Zero)
DivisorIsZero(m, y) == Eq(m, y, ZeroAddr)

\* Div past its guard, on the copies xx and yy of the operands
DivCopies(m, d, xx, yy, oob) ==
    LET e         == MantissaOf(m, xx) - MantissaOf(m, yy) - defaultDivScale
        scalerest == IF e < 0 THEN defaultDivScale ELSE MantissaOf(m, xx)
        Divided(x) ==
            LET m3 == IF e < 0
                      THEN WriteValue(x.m, xx, U256Mul(ValueOf(m, xx), x.val))
                      ELSE WriteValue(x.m, yy, U256Mul(ValueOf(m, yy), x.val))
                m4 == WriteValue(m3, d, U256Div(ValueOf(m3, xx), ValueOf(m3, yy)))
            IN  IF x.m.panic THEN [m |-> x.m, ret |-> Nil]
                ELSE [m |-> WriteMantissa(m4, d, scalerest), ret |-> d]
    IN  Divided(CallExpScale(m, IF e < 0 THEN -e ELSE e, oob))

Div(m, d, y, oob) ==
    LET Guarded(g) ==
            IF g.res
            THEN LET mz == NewDecimalZero(g.m) IN [m |-> mz, ret |-> LastDec(mz)]
            ELSE LET m1 == NewDecimal(g.m, d)
                     m2 == NewDecimal(m1, y)
                 IN  DivCopies(m2, d, LastDec(m1), LastDec(m2), oob)
    IN  Guarded(DivisorIsZero(m, y))

SetFromBig(m, d, value, mantissa) ==
    LET r == U256SetFromBig(value)
    IN  [m        |-> WriteMantissa(WriteValue(m, d, r.val), d, mantissa),
         ret      |-> d,
         overflow |-> r.overflow]

NewDecimalFromUint64(m, value) ==
    LET m1 == NewDecimalZero(m)
    IN  SetFromBig(m1, LastDec(m1), BigFromInt64OfUint64(value), 0)

(***************************************************************************)
(* Strings are sequences of one-character strings.                         *)
(***************************************************************************)
Digits == <<"0", "1", "2", "3", "4", "5", "6", "7", "8", "9">>

DigitChars == {Digits[i] : i \in 1..Len(Digits)}

DigitValue(c) == (CHOOSE i \in 1..Len(Digits) : Digits[i] = c) - 1

RECURSIVE DecValue(_, _, _)
\* the number written by the decimal digits s[lo..hi]
DecValue(s, lo, hi) ==
    IF lo > hi THEN <<>>
    ELSE IF lo = hi THEN NatFromInt(DigitValue(s[lo]))
    ELSE LET mid == (lo + hi) \div 2
         IN  NatAdd(NatMul(DecValue(s, lo, mid), NatPow10(hi - mid)),
                    DecValue(s, mid + 1, hi))

\* big.Int.SetString(s, 10): an optional sign, then one or more digits,
\* and nothing else.
BigSetString(s) ==
    LET signed == Len(s) > 0 /\ s[1] \in {"+", "-"}
        from   == IF signed THEN 2 ELSE 1
        ok     == from <= Len(s) /\ \A i \in from..Len(s) : s[i] \in DigitChars
        abs    == IF ok THEN DecValue(s, from, Len(s)) ELSE <<>>
    IN  [ok |-> ok, neg |-> ok /\ signed /\ s[1] = "-" /\ abs # <<>>, abs |-> abs]

MaxUint8 == 255

\* parts[1][:zerosStart+1]: the fractional part without its trailing zeros
DropSuffixZeros(frac) ==
    LET keep == {i \in 1..Len(frac) : frac[i] # "0"}
    IN  SubSeq(frac, 1, IF keep = {} THEN 0
                        ELSE CHOOSE i \in keep : \A j \in keep : j <= i)

FromString(m, d, value) ==
    IF value = <<>>
    THEN LET m1 == NewInt(m, <<>>)
         IN  [m |-> [m1 EXCEPT !.decs[d].value = LastInt(m1)], ok |-> TRUE]
    ELSE
    LET dots == {i \in 1..Len(value) : value[i] = "."}
    IN  IF Cardinality(dots) + 1 > 2 THEN [m |-> m, ok |-> FALSE]
        ELSE
        LET dot  == IF dots = {} THEN 0 ELSE CHOOSE i \in dots : TRUE
            int  == SubSeq(value, 1, dot - 1)
            frac == SubSeq(value, dot + 1, Len(value))
            cut  == DropSuffixZeros(frac)
            big  == IF dots = {} THEN BigSetString(value)
                    ELSE BigSetString(int \o cut)
            mantissa == IF dots = {} THEN 0 ELSE Len(cut) % Uint8
            r    == U256SetFromBig(big)
        IN  IF dots # {} /\ Len(frac) > MaxUint8 THEN [m |-> m, ok |-> FALSE]
            ELSE IF ~big.ok THEN [m |-> m, ok |-> FALSE]
            ELSE IF r.overflow THEN [m |-> WriteValue(m, d, r.val), ok |-> FALSE]
            ELSE [m |-> WriteMantissa(WriteValue(m, d, r.val), d, mantissa),
                  ok |-> TRUE]

(***************************************************************************)
(* The program state between calls: the heap reachable from the package    *)
(* variable Zero, from the caller's two Decimals, and from the pointer the *)
(* last call returned, when that is a fresh object.                        *)
(***************************************************************************)
VARIABLES decs, ints, call, nops

vars == <<decs, ints, call, nops>>

\* the caller's Decimals
Held == {ZeroAddr + 1, ZeroAddr + 2}

Roots == {ZeroAddr} \cup Held

\* By the convention of the package the shared Zero is never a receiver.
Receivers == {ZeroAddr + 1}

\* Garbage collection: keeps the objects reachable from the roots and from
\* ret, renumbered in the order the roots reach them.
Collect(m, ret) ==
    LET fresh == ret # Nil /\ ret \notin Roots
        live  == IF fresh THEN [i \in 1..(Cardinality(Roots) + 1) |->
                                   IF i <= Cardinality(Roots) THEN i ELSE ret]
                 ELSE [i \in 1..Cardinality(Roots) |-> i]
        first(k) == CHOOSE j \in 1..k :
                        /\ m.decs[live[j]].value = m.decs[live[k]].value
                        /\ \A h \in 1..(j - 1) :
                               m.decs[live[h]].value # m.decs[live[k]].value
        idx(k)   == Cardinality({m.decs[live[j]].value : j \in 1..first(k)})
        n        == Cardinality({m.decs[live[j]].value : j \in 1..Len(live)})
    IN  [decs |-> [k \in 1..Len(live) |->
                      [value |-> idx(k), mantissa |-> m.decs[live[k]].mantissa]],
         ints |-> [i \in 1..n |->
                      m.ints[m.decs[live[CHOOSE k \in 1..Len(live) : idx(k) = i]].value]],
         ret  |-> IF fresh THEN Cardinality(Roots) + 1 ELSE ret]

\* The machine a call starts on: the caller has dropped the pointer the
\* previous call returned.
Start ==
    LET c == Collect([decs |-> decs, ints |-> ints], Nil)
    IN  [decs |-> c.decs, ints |-> c.ints, exps |-> <<>>, panic |-> FALSE]

NoCall ==
    [op |-> "none", recv |-> Nil, arg |-> Nil, str |-> <<>>, u64 |-> <<>>,
     res |-> FALSE, ret |-> Nil, exps |-> <<>>, panic |-> FALSE,
     pre |-> [decs |-> <<>>, ints |-> <<>>]]

\* The outcome of a call that ran on machine start and ended with machine
\* m.  A panic unwinds the call: nothing reachable was written before it.
Outcome(start, m, c) ==
    LET g == Collect(m, c.ret)
    IN  [decs |-> IF m.panic THEN start.decs ELSE g.decs,
         ints |-> IF m.panic THEN start.ints ELSE g.ints,
         call |-> [c EXCEPT !.ret = IF m.panic THEN Nil ELSE g.ret,
                            !.exps = m.exps, !.panic = m.panic,
                            !.pre = [decs |-> start.decs, ints |-> start.ints]]]

Finish(o) ==
    /\ decs' = o.decs
    /\ ints' = o.ints
    /\ call' = o.call
    /\ nops' = nops + 1

NewDecimalFromBig(m, value, mantissa) ==
    LET r  == U256SetFromBig(value)
        m1 == NewInt(m, r.val)
    IN  IF r.overflow THEN NewDecimalZero(m)
        ELSE [m1 EXCEPT !.decs = Append(@, [value |-> LastInt(m1),
                                            mantissa |-> mantissa])]

(***************************************************************************)
(* Inputs.                                                                 *)
(***************************************************************************)
MaxOps == 1

MaxStrLen == 3

Magnitudes == {<<>>, <<2>>, <<50>>, U256Max}

Scales == {0, 21, 255}

ParseMagnitudes == {<<>>, <<7>>}

ParseScales == {0, 3}

Alphabet == {"0", "5", ".", "+", "-"}

\* 2^256 and 2^256 - 1 in decimal
Pow2To256Text ==
    <<"1","1","5","7","9","2","0","8","9","2","3","7","3","1","6","1","9","5",
      "4","2","3","5","7","0","9","8","5","0","0","8","6","8","7","9","0","7",
      "8","5","3","2","6","9","9","8","4","6","6","5","6","4","0","5","6","4",
      "0","3","9","4","5","7","5","8","4","0","0","7","9","1","3","1","2","9",
      "6","3","9","9","3","6">>

U256MaxText == [Pow2To256Text EXCEPT ![Len(Pow2To256Text)] = "5"]

\* "1." followed by n zeros
OnePointZeros(n) ==
    [i \in 1..(n + 2) |-> IF i = 1 THEN "1" ELSE IF i = 2 THEN "." ELSE "0"]

LongTexts ==
    {Pow2To256Text, U256MaxText, <<"-">> \o Pow2To256Text,
     SubSeq(Pow2To256Text, 1, 40) \o <<".">> \o SubSeq(Pow2To256Text, 41, 78),
     OnePointZeros(MaxUint8), OnePointZeros(MaxUint8 + 1)}

Texts == UNION {[1..n -> Alphabet] : n \in 0..MaxStrLen} \cup LongTexts

Uint64Values ==
    {<<>>, <<1>>, NatSub(Pow2To63, <<1>>), Pow2To63, NatSub(Pow2To64, <<1>>)}

Big(v) == [neg |-> FALSE, abs |-> v]

Empty == [decs |-> <<>>, ints |-> <<>>, exps |-> <<>>, panic |-> FALSE]

\* Zero = NewDecimalZero(), then the caller's a and b from NewDecimalFromBig
Constructed(va, sa, vb, sb) ==
    NewDecimalFromBig(NewDecimalFromBig(NewDecimalZero(Empty), Big(va), sa),
                      Big(vb), sb)

InitWith(M, S) ==
    \E va \in M, vb \in M, sa \in S, sb \in S :
        /\ decs = Constructed(va, sa, vb, sb).decs
        /\ ints = Constructed(va, sa, vb, sb).ints
        /\ call = NoCall
        /\ nops = 0

Init == InitWith(Magnitudes, Scales)

InitParse == InitWith(ParseMagnitudes, ParseScales)

(***************************************************************************)
(* Actions: one per exported operation, on the heap between calls.         *)
(***************************************************************************)
Called(op, d, y) == [NoCall EXCEPT !.op = op, !.recv = d, !.arg = y]

EqOutcome(start, d, y) ==
    LET r == Eq(start, d, y)
    IN  Outcome(start, r.m, [Called("Eq", d, y) EXCEPT !.res = r.res])

GtOutcome(start, d, y) ==
    LET r == Gt(start, d, y)
    IN  Outcome(start, r.m, [Called("Gt", d, y) EXCEPT !.res = r.res])

LtOutcome(start, d, y) ==
    LET r == Lt(start, d, y)
    IN  Outcome(start, r.m, [Called("Lt", d, y) EXCEPT !.res = r.res])

AddOutcome(start, d, y) ==
    LET r == Add(start, d, y)
    IN  Outcome(start, r.m, [Called("Add", d, y) EXCEPT !.ret = r.ret])

SubOutcome(start, d, y) ==
    LET r == Sub(start, d, y)
    IN  Outcome(start, r.m, [Called("Sub", d, y) EXCEPT !.ret = r.ret])

MulOutcome(start, d, y) ==
    LET r == Mul(start, d, y)
    IN  Outcome(start, r.m, [Called("Mul", d, y) EXCEPT !.ret = r.ret])

DivOutcome(start, d, y, oob) ==
    LET r == Div(start, d, y, oob)
    IN  Outcome(start, r.m, [Called("Div", d, y) EXCEPT !.ret = r.ret])

FromStringOutcome(start, d, value) ==
    LET r == FromString(start, d, value)
    IN  Outcome(start, r.m, [Called("FromString", d, Nil) EXCEPT !.str = value,
                                                                  !.res = r.ok])

NewDecimalFromUint64Outcome(start, value) ==
    LET r == NewDecimalFromUint64(start, value)
    IN  Outcome(start, r.m, [Called("NewDecimalFromUint64", Nil, Nil) EXCEPT
                                 !.u64 = value, !.ret = r.ret])

CallEq(d, y) ==
    /\ nops < MaxOps
    /\ \E o \in {EqOutcome(Start, d, y)} : Finish(o)

CallGt(d, y) ==
    /\ nops < MaxOps
    /\ \E o \in {GtOutcome(Start, d, y)} : Finish(o)

CallLt(d, y) ==
    /\ nops < MaxOps
    /\ \E o \in {LtOutcome(Start, d, y)} : Finish(o)

CallAdd(d, y) ==
    /\ nops < MaxOps
    /\ \E o \in {AddOutcome(Start, d, y)} : Finish(o)

CallSub(d, y) ==
    /\ nops < MaxOps
    /\ \E o \in {SubOutcome(Start, d, y)} : Finish(o)

CallMul(d, y) ==
    /\ nops < MaxOps
    /\ \E o \in {MulOutcome(Start, d, y)} : Finish(o)

CallDiv(d, y, oob) ==
    /\ nops < MaxOps
    /\ \E o \in {DivOutcome(Start, d, y, oob)} : Finish(o)

CallFromString(d, value) ==
    /\ nops < MaxOps
    /\ \E o \in {FromStringOutcome(Start, d, value)} : Finish(o)

CallNewDecimalFromUint64(value) ==
    /\ nops < MaxOps
    /\ \E o \in {NewDecimalFromUint64Outcome(Start, value)} : Finish(o)

NextCmp ==
    \E d \in Roots, y \in Roots : CallEq(d, y) \/ CallGt(d, y) \/ CallLt(d, y)

NextArith ==
    \E d \in Receivers, y \in Roots :
        \/ CallAdd(d, y)
        \/ CallSub(d, y)
        \/ CallMul(d, y)
        \/ \E oob \in {"wrap", "panic"} : CallDiv(d, y, oob)

NextParse ==
    \/ \E d \in Receivers, value \in Texts : CallFromString(d, value)
    \/ \E value \in Uint64Values : CallNewDecimalFromUint64(value)

Next == NextArith

Spec == Init /\ [][Next]_vars

SpecCmp == Init /\ [][NextCmp]_vars

SpecParse == InitParse /\ [][NextParse]_vars

(***************************************************************************)
(* What the claims speak of.                                               *)
(***************************************************************************)
Value(p) == ints[decs[p].value]

Mantissa(p) == decs[p].mantissa

PreValue(p) == call.pre.ints[call.pre.decs[p].value]

PreMantissa(p) == call.pre.decs[p].mantissa

PreMachine ==
    [decs |-> call.pre.decs, ints |-> call.pre.ints, exps |-> <<>>, panic |-> FALSE]

Unchanged(p) == Value(p) = PreValue(p) /\ Mantissa(p) = PreMantissa(p)

\* -1, 0, 1 as the value mx / 10^sx is below, equal to, above my / 10^sy
CmpRepresented(mx, sx, my, sy) ==
    NatCmp(NatMul(mx, NatPow10(sy)), NatMul(my, NatPow10(sx)))

\* C1: Eq, Gt and Lt answer by the represented values magnitude / 10^scale
\* of their operands, whatever the scales the operands are stored in.
C1_ComparisonsReflectValue ==
    call.op \in {"Eq", "Gt", "Lt"} =>
        LET c == CmpRepresented(PreValue(call.recv), PreMantissa(call.recv),
                                PreValue(call.arg), PreMantissa(call.arg))
        IN  call.res = CASE call.op = "Eq" -> c = 0
                         [] call.op = "Gt" -> c > 0
                         [] call.op = "Lt" -> c < 0

C3_FromUint64Lossless ==
    call.op = "NewDecimalFromUint64" =>
        Value(call.ret) = call.u64 /\ Mantissa(call.ret) = 0

\* C4: when FromString returns false the receiver's magnitude and scale are
\* what they were before the call.
C4_FailedParseLeavesReceiver ==
    (call.op = "FromString" /\ ~call.res) => Unchanged(call.recv)

SeparateCopy(m, p) ==
    [m EXCEPT !.ints = Append(@, ValueOf(m, p)),
              !.decs = Append(@, [value |-> Len(m.ints) + 1,
                                  mantissa |-> MantissaOf(m, p)])]

Apply(op, m, d, y) ==
    CASE op = "Add" -> Add(m, d, y).m
      [] op = "Sub" -> Sub(m, d, y).m
      [] op = "Mul" -> Mul(m, d, y).m
      [] op = "Div" -> Div(m, d, y, "wrap").m

\* C6: d.op(d) leaves d as d.op(c) does for a separate copy c of d taken
\* before the call; d.Add(d) doubles the magnitude and d.Sub(d) leaves
\* magnitude 0.
C6_SelfAliasedAsWithCopy ==
    (call.op \in {"Add", "Sub", "Mul", "Div"} /\ call.recv = call.arg) =>
        LET mc == SeparateCopy(PreMachine, call.recv)
            r  == Apply(call.op, mc, call.recv, LastDec(mc))
        IN  /\ ~call.panic
            /\ Value(call.recv) = ValueOf(r, call.recv)
            /\ Mantissa(call.recv) = MantissaOf(r, call.recv)
            /\ call.op = "Add" =>
                   Value(call.recv) = U256Mod(NatMulSmall(PreValue(call.recv), 2))
            /\ call.op = "Sub" => Value(call.recv) = <<>>

C6_Witness ==
    /\ call.op = "Div"
    /\ call.recv = call.arg
    /\ PreValue(call.recv) # <<>>
    /\ Value(call.recv) # PreValue(call.recv)

\* C7: FromString("") returns true and leaves the receiver with magnitude 0
\* and scale 0, whatever the receiver held.
C7_EmptyStringGivesZeroScaleZero ==
    (call.op = "FromString" /\ call.str = <<>>) =>
        call.res /\ Value(call.recv) = <<>> /\ Mantissa(call.recv) = 0

IsDigits(s, lo, hi) == \A i \in lo..hi : s[i] \in DigitChars

\* [digits]['.' digits]
InGrammar(s) ==
    LET dots == {i \in 1..Len(s) : s[i] = "."}
    IN  IF dots = {} THEN IsDigits(s, 1, Len(s))
        ELSE /\ Cardinality(dots) = 1
             /\ \E k \in dots : /\ IsDigits(s, 1, k - 1)
                                /\ k < Len(s)
                                /\ IsDigits(s, k + 1, Len(s))

\* C8: FromString returns false for every string that is not of the grammar
\* [digits]['.' digits].
C8_OnlyGrammarAccepted ==
    (call.op = "FromString" /\ ~InGrammar(call.str)) => ~call.res

\* no product of Div exceeds 2^256 - 1: the dividend times 10^(-e), or the
\* divisor times 10^e
DivWithoutOverflow ==
    LET e == PreMantissa(call.recv) - PreMantissa(call.arg) - defaultDivScale
    IN  IF e < 0
        THEN NatLe(NatMul(PreValue(call.recv), NatPow10(-e)), U256Max)
        ELSE NatLe(NatMul(PreValue(call.arg), NatPow10(e)), U256Max)

\* C9: for a non-zero divisor and without overflow, a.Div(b) leaves a with
\* magnitude floor((magnitude_a / 10^scale_a) / (magnitude_b / 10^scale_b)
\* * 10^rs) for the resulting scale rs: with N = magnitude_a * 10^(scale_b
\* + rs) and D = magnitude_b * 10^scale_a, the magnitude q has
\* q * D <= N < (q + 1) * D.
C9_DivExactTruncatedQuotient ==
    (call.op = "Div" /\ PreValue(call.arg) # <<>> /\ ~call.panic
        /\ DivWithoutOverflow) =>
        LET q == Value(call.recv)
            N == NatMul(PreValue(call.recv),
                        NatPow10(PreMantissa(call.arg) + Mantissa(call.recv)))
            D == NatMul(PreValue(call.arg), NatPow10(PreMantissa(call.recv)))
        IN  /\ NatLe(NatMul(q, D), N)
            /\ NatLt(N, NatMul(NatAdd(q, <<1>>), D))

\* C10: every exponent passed to ExpScale during a call lies in 0..255.
C10_ExpScaleWithinDomain ==
    \A i \in 1..Len(call.exps) : call.exps[i] \in ExpDomain

====
